---- MODULE Spec2Model ----
(***************************************************************************)
(* Model of the ads-params loader (src/main.rs): one command line run of   *)
(* one of the five sub-commands against a Redis store and an input file.   *)
(* Text is a sequence of one-character strings, so that split, lines,      *)
(* format! and the JSON decoder are computed character by character.       *)
(***************************************************************************)
EXTENDS Integers, Sequences, FiniteSets, TLC

\* ------------------------------------------------------------------ bounds
MaxLines == 3
MaxStr == 4

\* --------------------------------------------------------------- constants
REDIS_CFG_KEY_EXP_EXP_AB_PARAMS == <<"c","f","g",":","e","x","p",":","a","b">>

REDIS_KEY_EXP_ADID_DEFALUT_CHOICE ==
  <<"e","x","p",":","d","e","f","a","u","l","t",":","a","d","i","d",":","c","h","o","i","c","e","s">>

REDIS_CFG_KEY_EXP_TARGET_CTR_ACTION ==
  <<"c","f","g",":","e","x","p",":","a","c","t","i","o","n",":","t","a","r","g","e","t","c","t","r",":","d","e","f","a","u","l","t">>

REDIS_CFG_KEY_EXP_VERSION_AD_ID_SCORES ==
  <<"e","x","p","v","e","r","s","i","o","n",":","s","c","o","r","e",":","d","e","f","a","u","l","t">>

AbType == {"Fill", "Show", "Click"}

SignalType == {"TemptClick", "FillRate", "ShowRate", "ClickRate"}

Command ==
  {[name |-> "AbParams", types |-> t] : t \in AbType}
    \cup {[name |-> n, types |-> "-"] : n \in {"ActionChoice", "ActionScore", "ActionValue"}}
    \cup {[name |-> "RangeSignal", types |-> t] : t \in SignalType}

\* ------------------------------------------------------------ text helpers
\* Position of the first occurrence of character c in s, 0 when absent.
FindChar(s, c) ==
  IF \E i \in 1..Len(s) : s[i] = c
    THEN CHOOSE i \in 1..Len(s) : s[i] = c /\ \A j \in 1..(i - 1) : s[j] # c
    ELSE 0

\* str::split(pat): the pieces between occurrences of pat, never empty.
RECURSIVE Split(_, _)
Split(value, pat) ==
  LET p == FindChar(value, pat)
  IN IF p = 0
       THEN <<value>>
       ELSE <<SubSeq(value, 1, p - 1)>> \o Split(SubSeq(value, p + 1, Len(value)), pat)

\* Variant that stops after the second piece (the bug of using splitn(2)
\* semantics for the test of a third piece).
tuple2_from_split_lax(value, pat) ==
  LET split == Split(value, pat)
  IN IF Len(split) < 2
       THEN [ok |-> FALSE, kv |-> <<>>]
       ELSE [ok |-> TRUE, kv |-> <<split[1], split[2]>>]

tuple2_from_split(value, pat) ==
  LET split == Split(value, pat)
  IN IF Len(split) < 1
       THEN [ok |-> FALSE, kv |-> <<>>]
       ELSE IF Len(split) < 2
         THEN [ok |-> FALSE, kv |-> <<>>]
         ELSE IF Len(split) >= 3
           THEN [ok |-> FALSE, kv |-> <<>>]
           ELSE [ok |-> TRUE, kv |-> <<split[1], split[2]>>]

\* One step of BufRead::lines(): the text up to and including the first
\* "\n", with the "\n" and a "\r" right before it removed; a last line
\* without "\n" is returned as it is.
ReadLine(s) ==
  LET p == FindChar(s, "\n")
      t == SubSeq(s, 1, p - 1)
  IN IF p = 0
       THEN [line |-> s, rest |-> <<>>]
       ELSE [line |-> IF Len(t) > 0 /\ t[Len(t)] = "\r" THEN SubSeq(t, 1, Len(t) - 1) ELSE t,
             rest |-> SubSeq(s, p + 1, Len(s))]

\* format!("{:?}", types) for AbType.
DebugAbType(t) ==
  CASE t = "Fill" -> <<"F","i","l","l">>
    [] t = "Show" -> <<"S","h","o","w">>
    [] t = "Click" -> <<"C","l","i","c","k">>

ToLowercaseChar(c) ==
  CASE c = "F" -> "f"
    [] c = "S" -> "s"
    [] c = "C" -> "c"
    [] OTHER -> c

\* impl fmt::Display for AbType: the Debug name in lower case.
DisplayAbType(t) == [i \in DOMAIN DebugAbType(t) |-> ToLowercaseChar(DebugAbType(t)[i])]

DigitChar(d) == <<"0","1","2","3","4","5","6","7","8","9">>[d + 1]

\* format!("{}", action_id) for a usize.
RECURSIVE DisplayUsize(_)
DisplayUsize(n) ==
  IF n < 10 THEN <<DigitChar(n)>> ELSE DisplayUsize(n \div 10) \o <<DigitChar(n % 10)>>

\* ------------------------------------------------------------ JSON decoder
\* serde_json::from_str::<Vec<f32>>, on text without sign or exponent
\* characters.  An f32 is held as its shortest decimal: the integer digits
\* and the fraction digits without trailing zeros (faithful for the inputs
\* used here, which have fewer than seven significant digits).
IsWs(c) == c \in {" ", "\n", "\r", "\t"}

IsDigit(c) == c \in {"0","1","2","3","4","5","6","7","8","9"}

RECURSIVE SkipWs(_, _)
SkipWs(s, i) == IF i <= Len(s) /\ IsWs(s[i]) THEN SkipWs(s, i + 1) ELSE i

RECURSIVE DigitsEnd(_, _)
DigitsEnd(s, i) == IF i <= Len(s) /\ IsDigit(s[i]) THEN DigitsEnd(s, i + 1) ELSE i

RECURSIVE StripTrailingZeros(_)
StripTrailingZeros(d) ==
  IF d # <<>> /\ d[Len(d)] = "0" THEN StripTrailingZeros(SubSeq(d, 1, Len(d) - 1)) ELSE d

NoNumber == [ok |-> FALSE, val |-> [int |-> <<>>, frac |-> <<>>], next |-> 0]

\* One JSON number starting at position i: "0" or a digit string without a
\* leading zero, then an optional "." followed by at least one digit.
ParseNumber(s, i) ==
  IF i > Len(s) \/ ~IsDigit(s[i])
    THEN NoNumber
    ELSE LET intEnd == IF s[i] = "0" THEN i + 1 ELSE DigitsEnd(s, i)
             hasFrac == intEnd <= Len(s) /\ s[intEnd] = "."
             fracEnd == IF hasFrac THEN DigitsEnd(s, intEnd + 1) ELSE intEnd
         IN IF s[i] = "0" /\ intEnd <= Len(s) /\ IsDigit(s[intEnd])
              THEN NoNumber
              ELSE IF hasFrac /\ fracEnd = intEnd + 1
                THEN NoNumber
                ELSE [ok |-> TRUE,
                      val |-> [int |-> SubSeq(s, i, intEnd - 1),
                               frac |-> IF hasFrac
                                          THEN StripTrailingZeros(SubSeq(s, intEnd + 1, fracEnd - 1))
                                          ELSE <<>>],
                      next |-> fracEnd]

NoArray == [ok |-> FALSE, values |-> <<>>, next |-> 0]

\* The elements of an array from position i, where an element must start.
RECURSIVE ParseElems(_, _, _)
ParseElems(s, i, acc) ==
  LET n == ParseNumber(s, i)
      j == SkipWs(s, n.next)
  IN IF ~n.ok \/ j > Len(s)
       THEN NoArray
       ELSE IF s[j] = ","
         THEN ParseElems(s, SkipWs(s, j + 1), Append(acc, n.val))
         ELSE IF s[j] = "]"
           THEN [ok |-> TRUE, values |-> Append(acc, n.val), next |-> j + 1]
           ELSE NoArray

from_str(s) ==
  LET i == SkipWs(s, 1)
      j == SkipWs(s, i + 1)
      r == IF j <= Len(s) /\ s[j] = "]"
             THEN [ok |-> TRUE, values |-> <<>>, next |-> j + 1]
             ELSE ParseElems(s, j, <<>>)
  IN IF i > Len(s) \/ s[i] # "["
       THEN [ok |-> FALSE, values |-> <<>>]
       ELSE IF r.ok /\ SkipWs(s, r.next) > Len(s)
         THEN [ok |-> TRUE, values |-> r.values]
         ELSE [ok |-> FALSE, values |-> <<>>]

\* format!("{}", val) for an f32.
DisplayF32(v) == v.int \o (IF v.frac = <<>> THEN <<>> ELSE <<".">> \o v.frac)

\* ---------------------------------------------------------------- the store
\* A store is a function from map names to functions from fields to values.
EmptyMap == [f \in {} |-> <<>>]

\* HSET that replaces the map by the single field (the bug of SET/DEL
\* followed by HSET).
hset_replacing(st, key, field, value) ==
  [k \in (DOMAIN st) \cup {key} |->
     IF k = key THEN [f \in {field} |-> value] ELSE st[k]]

\* HSET key field value: upsert of one field.
hset(st, key, field, value) ==
  LET old == IF key \in DOMAIN st THEN st[key] ELSE EmptyMap
  IN [k \in (DOMAIN st) \cup {key} |->
        IF k = key
          THEN [f \in (DOMAIN old) \cup {field} |-> IF f = field THEN value ELSE old[f]]
          ELSE st[k]]

\* HMSET key f1 v1 f2 v2 ...: upsert of every pair, in order.  With no pair
\* the command carries no field and changes nothing.
RECURSIVE hset_multiple(_, _, _)
hset_multiple(st, key, its) ==
  IF its = <<>>
    THEN st
    ELSE hset_multiple(hset(st, key, its[1][1], its[1][2]), key, Tail(its))

\* The effect on the store of one write event of the log.
ApplyWrite(st, w) ==
  IF w[1] = "HSET" THEN hset(st, w[2], w[3], w[4]) ELSE hset_multiple(st, w[2], w[3])

\* ------------------------------------------------------------------ inputs
Line_ab == <<"a","=","b">>
Line_bEmpty == <<"b","=">>
Line_noEq == <<"a","b">>
Line_blank == <<>>
Line_twoEq == <<"a","=","b","=","c">>
Line_emptyVec == <<"a","=","[","]">>
Line_seg1 == <<"s","e","g","1","=","[","0",".","1",",","0",".","2",",","0",".","3","]">>
Line_bVecCr == <<"b","=","[","1",".","0",","," ","5","]","\r">>
Line_braces == <<"v","1","=","{","1",".","0",",","2",".","0","}">>

\* The lines the input files are made of.
Lines ==
  {Line_ab, Line_bEmpty, Line_noEq, Line_blank, Line_twoEq,
   Line_emptyVec, Line_seg1, Line_bVecCr, Line_braces}

RECURSIVE Join(_)
Join(ls) ==
  IF ls = <<>> THEN <<>>
  ELSE IF Len(ls) = 1 THEN ls[1]
  ELSE ls[1] \o <<"\n">> \o Join(Tail(ls))

\* The input files: up to MaxLines lines, with or without a final newline.
Files ==
  LET seqs == UNION {[1..n -> Lines] : n \in 0..MaxLines}
  IN {Join(ls) : ls \in seqs} \cup {Join(ls) \o <<"\n">> : ls \in seqs}

\* The strings the line parser is checked on.
Strings == UNION {[1..n -> {"=", "a", "\n"}] : n \in 0..MaxStr}

Key_a == <<"a">>
Key_other == <<"o","t","h","e","r">>

\* The store a run starts on.  It already holds data: stale indices in the
\* target-CTR map and in the scores map of key "a", a choice, and a map no
\* loader names; the AB map and the other scores maps do not exist yet.
PrefilledStore ==
  LET ctr == REDIS_CFG_KEY_EXP_TARGET_CTR_ACTION
      sa == REDIS_CFG_KEY_EXP_VERSION_AD_ID_SCORES \o <<":">> \o Key_a
      ch == REDIS_KEY_EXP_ADID_DEFALUT_CHOICE
  IN [k \in {ctr, sa, ch, Key_other} |->
        IF k = ctr THEN [f \in {<<"0">>, <<"5">>} |-> <<"9">>]
        ELSE IF k = sa THEN [f \in {<<"1">>, <<"7">>} |-> <<"9">>]
        ELSE IF k = ch THEN [f \in {<<"a">>} |-> <<"z">>]
        ELSE [f \in {<<"x">>} |-> <<"y">>]]

EmptyStore == [k \in {} |-> EmptyMap]

\* The outcomes of one store command: done, refused, or applied by the
\* server with the reply lost.
WriteOutcomes == {"ok", "err", "err_applied"}

\* ------------------------------------------------------------------- state
VARIABLES
  cmd,        \* cli.command
  pc,         \* position of the run
  result,     \* "running", "Ok" or the error the process ends with
  io,         \* log of the connection, file and store operations issued
  store,      \* content of the store
  store0,     \* content of the store when the run started
  data,       \* content of the input file, once opened
  rest,       \* part of the file the reader has not consumed
  kv,         \* the last record returned by tuple2_from_split
  items,      \* the vector of entries being built
  values,     \* the decoded numeric vector
  action_id,  \* position of the enumeration over values
  failedAt    \* index in io of the store write that failed, 0 if none

vars == <<cmd, pc, result, io, store, store0, data, rest, kv, items, values, action_id, failedAt>>

Init ==
  /\ cmd \in Command
  /\ pc = "main"
  /\ result = "running"
  /\ io = <<>>
  /\ store0 = PrefilledStore
  /\ store = store0
  /\ data = <<>>
  /\ rest = <<>>
  /\ kv = <<>>
  /\ items = <<>>
  /\ values = <<>>
  /\ action_id = 0
  /\ failedAt = 0

\* ----------------------------------------------------------- shared steps
\* The process ends with error e.
Fail(e) == pc' = "exit" /\ result' = e

\* redis::Client::open(..)? ; client.get_connection()?
GetConnection(next) ==
  /\ \E up \in BOOLEAN :
       /\ io' = Append(io, <<"connect", IF up THEN "ok" ELSE "err">>)
       /\ IF up THEN pc' = next /\ result' = result ELSE Fail("StoreConnectionError")
  /\ UNCHANGED <<cmd, store, store0, data, rest, kv, items, values, action_id, failedAt>>

\* File::open(..)? : the content of the file becomes the reader's input.
FileOpen(next) ==
  /\ \/ \E f \in Files :
          /\ io' = Append(io, <<"open", "ok">>)
          /\ data' = f
          /\ rest' = f
          /\ pc' = next
          /\ result' = result
     \/ /\ io' = Append(io, <<"open", "err">>)
        /\ Fail("FileAccessError")
        /\ UNCHANGED <<data, rest>>
  /\ UNCHANGED <<cmd, store, store0, kv, items, values, action_id, failedAt>>

\* Variant without the `?`: the error of the store command is dropped and
\* the run goes on.
Write_unchecked(w, next, res) ==
  \E o \in WriteOutcomes :
    /\ io' = Append(io, w)
    /\ store' = IF o = "err" THEN store ELSE ApplyWrite(store, w)
    /\ pc' = next
    /\ result' = res
    /\ failedAt' = IF o = "ok" THEN failedAt ELSE Len(io) + 1

\* One store command w followed by `?`: on success the run goes on at
\* next with result res, on failure the process ends with the store's error.
Write(w, next, res) ==
  \E o \in WriteOutcomes :
    /\ io' = Append(io, w)
    /\ store' = IF o = "err" THEN store ELSE ApplyWrite(store, w)
    /\ IF o = "ok"
         THEN pc' = next /\ result' = res /\ failedAt' = failedAt
         ELSE Fail("StoreWriteError") /\ failedAt' = Len(io) + 1

\* ---------------------------------------------------------------- main
main ==
  /\ pc = "main"
  /\ pc' = CASE cmd.name = "AbParams" -> "ab_connect"
             [] cmd.name = "ActionChoice" -> "ac_connect"
             [] cmd.name = "ActionScore" -> "as_connect"
             [] cmd.name = "ActionValue" -> "av_connect"
             [] cmd.name = "RangeSignal" -> "range_signal"
  /\ UNCHANGED <<cmd, result, io, store, store0, data, rest, kv, items, values, action_id, failedAt>>

\* ------------------------------------------------------- handle_ab_params
\* Variant that opens the file without a connection being made first.
handle_ab_params_connect_skipped ==
  /\ pc = "ab_connect"
  /\ pc' = "ab_open"
  /\ UNCHANGED <<cmd, result, io, store, store0, data, rest, kv, items, values, action_id, failedAt>>

handle_ab_params_connect == pc = "ab_connect" /\ GetConnection("ab_open")

handle_ab_params_open == pc = "ab_open" /\ FileOpen("ab_lines")

\* Variant with the policy of the other loaders: a bad line ends the run.
handle_ab_params_line_aborting ==
  /\ pc = "ab_lines"
  /\ rest # <<>>
  /\ LET r == ReadLine(rest)
         p == tuple2_from_split(r.line, "=")
     IN /\ rest' = r.rest
        /\ IF p.ok
             THEN /\ kv' = p.kv
                  /\ Write(<<"HSET", REDIS_CFG_KEY_EXP_EXP_AB_PARAMS,
                             p.kv[1] \o <<":">> \o DisplayAbType(cmd.types), p.kv[2]>>,
                           "ab_lines", result)
             ELSE /\ Fail("MalformedRecord")
                  /\ UNCHANGED <<kv, io, store, failedAt>>
  /\ UNCHANGED <<cmd, store0, data, items, values, action_id>>

\* One iteration of the loop: a line without exactly one "=" is skipped.
handle_ab_params_line ==
  /\ pc = "ab_lines"
  /\ rest # <<>>
  /\ LET r == ReadLine(rest)
         p == tuple2_from_split(r.line, "=")
     IN /\ rest' = r.rest
        /\ IF p.ok
             THEN /\ kv' = p.kv
                  /\ Write(<<"HSET", REDIS_CFG_KEY_EXP_EXP_AB_PARAMS,
                             p.kv[1] \o <<":">> \o DisplayAbType(cmd.types), p.kv[2]>>,
                           "ab_lines", result)
             ELSE UNCHANGED <<kv, io, store, pc, result, failedAt>>
  /\ UNCHANGED <<cmd, store0, data, items, values, action_id>>

handle_ab_params_end ==
  /\ pc = "ab_lines"
  /\ rest = <<>>
  /\ pc' = "exit"
  /\ result' = "Ok"
  /\ UNCHANGED <<cmd, io, store, store0, data, rest, kv, items, values, action_id, failedAt>>

\* --------------------------------------------------- handle_action_choice
handle_action_choice_connect == pc = "ac_connect" /\ GetConnection("ac_open")

handle_action_choice_open == pc = "ac_open" /\ FileOpen("ac_lines")

\* Variant with the per-line write that the source keeps commented out.
handle_action_choice_line_eager ==
  /\ pc = "ac_lines"
  /\ rest # <<>>
  /\ LET r == ReadLine(rest)
         p == tuple2_from_split(r.line, "=")
     IN /\ rest' = r.rest
        /\ IF p.ok
             THEN /\ kv' = p.kv
                  /\ items' = Append(items, p.kv)
                  /\ Write(<<"HSET", REDIS_KEY_EXP_ADID_DEFALUT_CHOICE,
                             p.kv[1] \o <<":">> \o p.kv[2], p.kv[2]>>,
                           "ac_lines", result)
             ELSE /\ Fail("MalformedRecord")
                  /\ UNCHANGED <<kv, items, io, store, failedAt>>
  /\ UNCHANGED <<cmd, store0, data, values, action_id>>

\* One iteration of the loop: the record is pushed, a bad line ends the run.
handle_action_choice_line ==
  /\ pc = "ac_lines"
  /\ rest # <<>>
  /\ LET r == ReadLine(rest)
         p == tuple2_from_split(r.line, "=")
     IN /\ rest' = r.rest
        /\ IF p.ok
             THEN /\ kv' = p.kv
                  /\ items' = Append(items, p.kv)
                  /\ UNCHANGED <<pc, result>>
             ELSE /\ Fail("MalformedRecord")
                  /\ UNCHANGED <<kv, items>>
  /\ UNCHANGED <<cmd, io, store, store0, data, values, action_id, failedAt>>

\* After the loop: one bulk write of the records, unless there is none.
handle_action_choice_end ==
  /\ pc = "ac_lines"
  /\ rest = <<>>
  /\ IF items # <<>>
       THEN Write(<<"HMSET", REDIS_KEY_EXP_ADID_DEFALUT_CHOICE, items>>, "exit", "Ok")
       ELSE /\ pc' = "exit"
            /\ result' = "Ok"
            /\ UNCHANGED <<io, store, failedAt>>
  /\ UNCHANGED <<cmd, store0, data, rest, kv, items, values, action_id>>

\* ---------------------------------------------------- handle_action_score
handle_action_score_connect == pc = "as_connect" /\ GetConnection("as_open")

handle_action_score_open == pc = "as_open" /\ FileOpen("as_lines")

\* Variant that counts the positions from one.
EnumerateFromOne(vs) == [i \in 1..Len(vs) |-> <<DisplayUsize(i), DisplayF32(vs[i])>>]

\* The entries ("0", v0), ("1", v1), ... of a vector.
Enumerate(vs) == [i \in 1..Len(vs) |-> <<DisplayUsize(i - 1), DisplayF32(vs[i])>>]

\* One iteration of the loop: the record, its vector, one bulk write into
\* the map of the record's key.
handle_action_score_line ==
  /\ pc = "as_lines"
  /\ rest # <<>>
  /\ LET r == ReadLine(rest)
         p == tuple2_from_split(r.line, "=")
         d == from_str(p.kv[2])
     IN /\ rest' = r.rest
        /\ IF ~p.ok
             THEN /\ Fail("MalformedRecord")
                  /\ UNCHANGED <<kv, values, items, io, store, failedAt>>
             ELSE IF ~d.ok
               THEN /\ kv' = p.kv
                    /\ Fail("ValueDecodeError")
                    /\ UNCHANGED <<values, items, io, store, failedAt>>
               ELSE /\ kv' = p.kv
                    /\ values' = d.values
                    /\ items' = Enumerate(d.values)
                    /\ Write(<<"HMSET",
                               REDIS_CFG_KEY_EXP_VERSION_AD_ID_SCORES \o <<":">> \o p.kv[1],
                               Enumerate(d.values)>>,
                             "as_lines", result)
  /\ UNCHANGED <<cmd, store0, data, action_id>>

handle_action_score_end ==
  /\ pc = "as_lines"
  /\ rest = <<>>
  /\ pc' = "exit"
  /\ result' = "Ok"
  /\ UNCHANGED <<cmd, io, store, store0, data, rest, kv, items, values, action_id, failedAt>>

\* ---------------------------------------------------- handle_action_value
handle_action_value_connect == pc = "av_connect" /\ GetConnection("av_open")

handle_action_value_open == pc = "av_open" /\ FileOpen("av_read")

\* read_to_string, then the whole content as one record and its vector.
handle_action_value_read ==
  /\ pc = "av_read"
  /\ LET p == tuple2_from_split(rest, "=")
         d == from_str(p.kv[2])
     IN /\ rest' = <<>>
        /\ IF ~p.ok
             THEN Fail("MalformedRecord") /\ UNCHANGED <<kv, values>>
             ELSE IF ~d.ok
               THEN Fail("ValueDecodeError") /\ kv' = p.kv /\ UNCHANGED values
               ELSE /\ kv' = p.kv
                    /\ values' = d.values
                    /\ pc' = "av_write"
                    /\ result' = result
  /\ UNCHANGED <<cmd, io, store, store0, data, items, action_id, failedAt>>

\* Variant that names the field by the position counted from one.
handle_action_value_write_from_one ==
  /\ pc = "av_write"
  /\ action_id < Len(values)
  /\ Write(<<"HSET", REDIS_CFG_KEY_EXP_TARGET_CTR_ACTION,
             DisplayUsize(action_id + 1), DisplayF32(values[action_id + 1])>>,
           "av_write", result)
  /\ action_id' = action_id + 1
  /\ UNCHANGED <<cmd, store0, data, rest, kv, items, values>>

\* One iteration of the loop over values.iter().enumerate().
handle_action_value_write ==
  /\ pc = "av_write"
  /\ action_id < Len(values)
  /\ Write(<<"HSET", REDIS_CFG_KEY_EXP_TARGET_CTR_ACTION,
             DisplayUsize(action_id), DisplayF32(values[action_id + 1])>>,
           "av_write", result)
  /\ action_id' = action_id + 1
  /\ UNCHANGED <<cmd, store0, data, rest, kv, items, values>>

handle_action_value_end ==
  /\ pc = "av_write"
  /\ action_id = Len(values)
  /\ pc' = "exit"
  /\ result' = "Ok"
  /\ UNCHANGED <<cmd, io, store, store0, data, rest, kv, items, values, action_id, failedAt>>

\* ---------------------------------------------------- handle_range_signal
\* Variant that connects to the store, as the other handlers do, before it
\* gives up.
handle_range_signal_connecting ==
  /\ pc = "range_signal"
  /\ io' = Append(io, <<"connect", "ok">>)
  /\ Fail("NotImplemented")
  /\ UNCHANGED <<cmd, store, store0, data, rest, kv, items, values, action_id, failedAt>>

\* todo!() panics.
handle_range_signal ==
  /\ pc = "range_signal"
  /\ Fail("NotImplemented")
  /\ UNCHANGED <<cmd, io, store, store0, data, rest, kv, items, values, action_id, failedAt>>

Next ==
  \/ main
  \/ handle_ab_params_connect
  \/ handle_ab_params_open
  \/ handle_ab_params_line
  \/ handle_ab_params_end
  \/ handle_action_choice_connect
  \/ handle_action_choice_open
  \/ handle_action_choice_line
  \/ handle_action_choice_end
  \/ handle_action_score_connect
  \/ handle_action_score_open
  \/ handle_action_score_line
  \/ handle_action_score_end
  \/ handle_action_value_connect
  \/ handle_action_value_open
  \/ handle_action_value_read
  \/ handle_action_value_write
  \/ handle_action_value_end
  \/ handle_range_signal

Spec == Init /\ [][Next]_vars

\* ------------------------------------------- the line parser on its own
InitSplit ==
  /\ cmd = [name |-> "ActionValue", types |-> "-"]
  /\ pc = "split"
  /\ result = "running"
  /\ io = <<>>
  /\ store0 = EmptyStore
  /\ store = store0
  /\ data \in Strings
  /\ rest = <<>>
  /\ kv = <<>>
  /\ items = <<>>
  /\ values = <<>>
  /\ action_id = 0
  /\ failedAt = 0

\* One call tuple2_from_split(&data, '=', "bad line").
CallSplit ==
  /\ pc = "split"
  /\ LET p == tuple2_from_split(data, "=")
     IN /\ kv' = p.kv
        /\ result' = IF p.ok THEN "Ok" ELSE "MalformedRecord"
  /\ pc' = "exit"
  /\ UNCHANGED <<cmd, io, store, store0, data, rest, items, values, action_id, failedAt>>

NextSplit == CallSplit

SpecSplit == InitSplit /\ [][NextSplit]_vars

\* ------------------------------------------------- vocabulary of the claims
CountChar(s, c) == Cardinality({i \in 1..Len(s) : s[i] = c})

ExactlyOneEq(l) == CountChar(l, "=") = 1

\* The text before and after the only "=" of a line that has exactly one.
LeftOf(l) == SubSeq(l, 1, (CHOOSE i \in 1..Len(l) : l[i] = "=") - 1)

RightOf(l) == SubSeq(l, (CHOOSE i \in 1..Len(l) : l[i] = "=") + 1, Len(l))

RECURSIVE AllLines(_)
AllLines(s) == IF s = <<>> THEN <<>> ELSE <<ReadLine(s).line>> \o AllLines(ReadLine(s).rest)

IsWrite(e) == e[1] \in {"HSET", "HMSET"}

Writes == SelectSeq(io, IsWrite)

Connected == \E i \in 1..Len(io) : io[i][1] = "connect" /\ io[i][2] = "ok"

Opened == \E i \in 1..Len(io) : io[i][1] = "open" /\ io[i][2] = "ok"

IsPrefix(a, b) == Len(a) <= Len(b) /\ SubSeq(b, 1, Len(a)) = a

KindText(t) ==
  CASE t = "Fill" -> <<"f","i","l","l">>
    [] t = "Show" -> <<"s","h","o","w">>
    [] t = "Click" -> <<"c","l","i","c","k">>

\* A line is a good score line when it is a record whose value is a JSON
\* array of numbers.
GoodVectorLine(l) == ExactlyOneEq(l) /\ from_str(RightOf(l)).ok

RECURSIVE LeadingGood(_)
LeadingGood(ls) ==
  IF ls = <<>> \/ ~GoodVectorLine(ls[1]) THEN <<>> ELSE <<ls[1]>> \o LeadingGood(Tail(ls))

\* ---------------------------------------------------------------------- C1
\* C1: tuple2_from_split with '=' succeeds exactly on the strings with one
\* '='; it then returns the text before and the text after the '='; on any
\* other string it fails with MalformedRecord; it touches nothing else.
C1_LineParser ==
  pc = "exit" =>
    /\ (result = "Ok") <=> ExactlyOneEq(data)
    /\ ExactlyOneEq(data) =>
         /\ Len(kv) = 2
         /\ kv[1] \o <<"=">> \o kv[2] = data
         /\ CountChar(kv[1], "=") = 0
         /\ CountChar(kv[2], "=") = 0
    /\ ~ExactlyOneEq(data) => result = "MalformedRecord"
    /\ io = <<>>
    /\ store = store0

C1_Witness ==
  /\ pc = "exit"
  /\ result = "Ok"
  /\ Len(data) = MaxStr
  /\ kv[1] = <<>>
  /\ kv[2] # <<>>

\* ---------------------------------------------------------------------- C2
AbExpected ==
  LET good == SelectSeq(AllLines(data), ExactlyOneEq)
  IN [i \in 1..Len(good) |->
        <<"HSET", REDIS_CFG_KEY_EXP_EXP_AB_PARAMS,
          LeftOf(good[i]) \o <<":">> \o KindText(cmd.types), RightOf(good[i])>>]

\* C2: AB-Params issues, in file order, one set_field(AB map, "<key>:<kind>",
\* value) per line with exactly one '=' and nothing for any other line; when
\* no write fails the run ends in success with all of them issued.
C2_AbParamsWrites ==
  (cmd.name = "AbParams" /\ Opened) =>
    /\ IsPrefix(Writes, AbExpected)
    /\ (pc = "exit" /\ failedAt = 0) => (Writes = AbExpected /\ result = "Ok")

C2_Witness ==
  /\ cmd.name = "AbParams"
  /\ pc = "exit"
  /\ result = "Ok"
  /\ Len(AllLines(data)) = 3
  /\ ExactlyOneEq(AllLines(data)[1])
  /\ ~ExactlyOneEq(AllLines(data)[2])
  /\ ExactlyOneEq(AllLines(data)[3])
  /\ Len(Writes) = 2

\* ---------------------------------------------------------------------- C3
HasMalformedLine == \E i \in 1..Len(AllLines(data)) : ~ExactlyOneEq(AllLines(data)[i])

ChoiceRecords ==
  [i \in 1..Len(AllLines(data)) |-> <<LeftOf(AllLines(data)[i]), RightOf(AllLines(data)[i])>>]

\* C3: Action-Choice with a malformed line in the file ends in an error with
\* no write issued; otherwise it issues at most one write, a set_fields on
\* the default-choice map carrying every record in file order, issued after
\* the last line was parsed.
C3_ActionChoiceAllOrNothing ==
  cmd.name = "ActionChoice" =>
    /\ Len(Writes) <= 1
    /\ (Opened /\ HasMalformedLine) =>
         /\ Writes = <<>>
         /\ pc = "exit" => result = "MalformedRecord"
    /\ Writes # <<>> =>
         /\ Writes[1] = <<"HMSET", REDIS_KEY_EXP_ADID_DEFALUT_CHOICE, ChoiceRecords>>
         /\ rest = <<>>
    /\ (pc = "exit" /\ result = "Ok" /\ AllLines(data) # <<>>) => Len(Writes) = 1

C3_Witness ==
  /\ cmd.name = "ActionChoice"
  /\ pc = "exit"
  /\ result = "MalformedRecord"
  /\ Len(items) = 2
  /\ Writes = <<>>

\* ---------------------------------------------------------------------- C4
\* C4: no bulk write with an empty sequence of entries is ever issued.
C4_NoEmptyBulkWrite ==
  \A i \in 1..Len(io) : io[i][1] = "HMSET" => io[i][3] # <<>>

\* ---------------------------------------------------------------------- C5
\* The bulk write of one good score line: its own map, one entry per
\* position of the vector, zero-based, in index order.
ScoreWrite(l) ==
  LET v == from_str(RightOf(l)).values
  IN <<"HMSET",
       REDIS_CFG_KEY_EXP_VERSION_AD_ID_SCORES \o <<":">> \o LeftOf(l),
       [i \in 1..Len(v) |-> <<DisplayUsize(i - 1), DisplayF32(v[i])>>]>>

ScoreExpected ==
  LET good == LeadingGood(AllLines(data))
  IN [i \in 1..Len(good) |-> ScoreWrite(good[i])]

\* The error the first bad line of the file raises, "Ok" without bad line.
ScoreOutcome ==
  LET ls == AllLines(data)
      n == Len(LeadingGood(ls))
  IN IF n = Len(ls) THEN "Ok"
     ELSE IF ExactlyOneEq(ls[n + 1]) THEN "ValueDecodeError" ELSE "MalformedRecord"

\* C5 as stated: whatever the store does, Action-Score issues exactly one
\* set_fields per line before the first bad line and fails at the bad line.
C5_AsStated ==
  (cmd.name = "ActionScore" /\ Opened /\ pc = "exit") =>
    /\ Writes = ScoreExpected
    /\ ScoreOutcome # "Ok" => result = ScoreOutcome

\* C5 amended: when no store write fails, Action-Score issues exactly one
\* set_fields per line before the first bad line, in file order, into the
\* map "<scores-namespace>:<key>" with the entries ("i", v_i) in index
\* order; at the first bad line it fails with MalformedRecord or
\* ValueDecodeError and issues nothing for that line or a later one.
C5_ActionScoreWrites ==
  (cmd.name = "ActionScore" /\ Opened) =>
    /\ IsPrefix(Writes, ScoreExpected)
    /\ (pc = "exit" /\ failedAt = 0) =>
         /\ Writes = ScoreExpected
         /\ result = ScoreOutcome
    /\ \A i \in 1..Len(Writes) :
         Writes[i][2] = REDIS_CFG_KEY_EXP_VERSION_AD_ID_SCORES \o <<":", "b">> =>
           Writes[i][3] = << <<<<"0">>, <<"1">>>>, <<<<"1">>, <<"5">>>> >>

C5_Witness ==
  /\ cmd.name = "ActionScore"
  /\ pc = "exit"
  /\ failedAt = 0
  /\ result = "ValueDecodeError"
  /\ Len(AllLines(data)) = 3
  /\ Len(Writes) = 1
  /\ Len(Writes[1][3]) = 2

\* ---------------------------------------------------------------------- C6
ValueExpected ==
  LET v == from_str(RightOf(data)).values
  IN [i \in 1..Len(v) |->
        <<"HSET", REDIS_CFG_KEY_EXP_TARGET_CTR_ACTION, DisplayUsize(i - 1), DisplayF32(v[i])>>]

\* The three writes of the file "seg1=[0.1,0.2,0.3]".
Seg1Writes ==
  << <<"HSET", REDIS_CFG_KEY_EXP_TARGET_CTR_ACTION, <<"0">>, <<"0", ".", "1">>>>,
     <<"HSET", REDIS_CFG_KEY_EXP_TARGET_CTR_ACTION, <<"1">>, <<"0", ".", "2">>>>,
     <<"HSET", REDIS_CFG_KEY_EXP_TARGET_CTR_ACTION, <<"2">>, <<"0", ".", "3">>>> >>

\* C6 as stated: whatever the store does, a content with one '=' and a
\* vector of n numbers gives exactly n single-field writes.
C6_AsStated ==
  (cmd.name = "ActionValue" /\ Opened /\ pc = "exit") =>
    IF GoodVectorLine(data)
      THEN Writes = ValueExpected
      ELSE Writes = <<>> /\ result \in {"MalformedRecord", "ValueDecodeError"}

\* C6 amended: when no store write fails, Action-Value on a content with
\* exactly one '=' and a JSON array of n numbers issues exactly the n writes
\* set_field(target-CTR map, "i", v_i), i = 0..n-1 in increasing order, and
\* no bulk write; on any other content it fails with zero writes.
C6_ActionValueWrites ==
  (cmd.name = "ActionValue" /\ Opened) =>
    /\ GoodVectorLine(data) => IsPrefix(Writes, ValueExpected)
    /\ ~GoodVectorLine(data) =>
         /\ Writes = <<>>
         /\ pc = "exit" => result \in {"MalformedRecord", "ValueDecodeError"}
    /\ (pc = "exit" /\ failedAt = 0 /\ GoodVectorLine(data)) =>
         /\ Writes = ValueExpected
         /\ result = "Ok"
    /\ (pc = "exit" /\ failedAt = 0 /\ data = Line_seg1) => Writes = Seg1Writes

C6_Witness ==
  /\ cmd.name = "ActionValue"
  /\ pc = "exit"
  /\ result = "Ok"
  /\ data = Line_seg1
  /\ Len(Writes) = 3

\* ---------------------------------------------------------------------- C7
\* C7: Range-Signal with any type tag ends with NotImplemented and never
\* opens a connection, never opens the file, never writes to the store.
C7_RangeSignalNoIo ==
  cmd.name = "RangeSignal" =>
    /\ io = <<>>
    /\ store = store0
    /\ data = <<>>
    /\ pc = "exit" => result = "NotImplemented"

C7_Witness ==
  /\ cmd = [name |-> "RangeSignal", types |-> "FillRate"]
  /\ pc = "exit"
  /\ result = "NotImplemented"

\* ---------------------------------------------------------------------- C8
RECURSIVE Replay(_, _)
Replay(st, ws) == IF ws = <<>> THEN st ELSE Replay(ApplyWrite(st, ws[1]), Tail(ws))

\* C8: once a store write has failed the run is over with that error, the
\* failed write is the last operation issued, and the writes completed
\* before it are all in the store.
C8_WriteFailureFatal ==
  failedAt # 0 =>
    /\ pc = "exit"
    /\ result = "StoreWriteError"
    /\ failedAt = Len(io)
    /\ IsWrite(io[failedAt])
    /\ LET before == Replay(store0, SelectSeq(SubSeq(io, 1, failedAt - 1), IsWrite))
       IN store \in {before, ApplyWrite(before, io[failedAt])}

C8_Witness ==
  /\ cmd.name = "ActionValue"
  /\ failedAt = 5
  /\ store0 = PrefilledStore
  /\ store[REDIS_CFG_KEY_EXP_TARGET_CTR_ACTION][<<"1">>] = <<"0", ".", "2">>
  /\ <<"2">> \notin DOMAIN store[REDIS_CFG_KEY_EXP_TARGET_CTR_ACTION]

\* ---------------------------------------------------------------------- C9
\* C9: in every loader the connection is made before the file is opened and
\* the file is opened before any write; a connection failure ends the run
\* without the file being opened, a file failure ends it with a connection
\* made and no write.
C9_AcquisitionOrder ==
  /\ \A i \in 1..Len(io) :
       /\ io[i][1] = "open" =>
            \E j \in 1..(i - 1) : io[j][1] = "connect" /\ io[j][2] = "ok"
       /\ IsWrite(io[i]) =>
            \E j \in 1..(i - 1) : io[j][1] = "open" /\ io[j][2] = "ok"
  /\ result = "StoreConnectionError" =>
       /\ pc = "exit"
       /\ \A i \in 1..Len(io) : io[i][1] # "open" /\ ~IsWrite(io[i])
  /\ result = "FileAccessError" =>
       /\ pc = "exit"
       /\ Connected
       /\ Writes = <<>>

C9_Witness ==
  /\ cmd.name = "ActionScore"
  /\ result = "FileAccessError"
  /\ io = << <<"connect", "ok">>, <<"open", "err">> >>

\* --------------------------------------------------------------------- C10
\* The maps a run may write to.
Targets ==
  CASE cmd.name = "AbParams" -> {REDIS_CFG_KEY_EXP_EXP_AB_PARAMS}
    [] cmd.name = "ActionChoice" -> {REDIS_KEY_EXP_ADID_DEFALUT_CHOICE}
    [] cmd.name = "ActionScore" ->
         {REDIS_CFG_KEY_EXP_VERSION_AD_ID_SCORES \o <<":">> \o LeftOf(AllLines(data)[i]) :
            i \in {j \in 1..Len(AllLines(data)) : ExactlyOneEq(AllLines(data)[j])}}
    [] cmd.name = "ActionValue" -> {REDIS_CFG_KEY_EXP_TARGET_CTR_ACTION}
    [] OTHER -> {}

\* Field f of map m is named by a write of the run.
Named(m, f) ==
  \E i \in 1..Len(io) :
    /\ IsWrite(io[i])
    /\ io[i][2] = m
    /\ IF io[i][1] = "HSET"
         THEN io[i][3] = f
         ELSE \E k \in 1..Len(io[i][3]) : io[i][3][k][1] = f

\* C10: a run never removes a map or a field, and changes or adds only
\* fields of its own target maps that one of its writes names; a stale
\* index of the target-CTR map survives a load of a shorter vector.
C10_Frame ==
  /\ \A m \in DOMAIN store0 :
       /\ m \in DOMAIN store
       /\ \A f \in DOMAIN store0[m] :
            /\ f \in DOMAIN store[m]
            /\ store[m][f] # store0[m][f] => (m \in Targets /\ Named(m, f))
  /\ \A m \in DOMAIN store :
       \A f \in DOMAIN store[m] :
         (m \notin DOMAIN store0 \/ f \notin DOMAIN store0[m]) => (m \in Targets /\ Named(m, f))
  /\ (cmd.name = "ActionValue" /\ store0 = PrefilledStore /\ Len(values) <= 5) =>
       store[REDIS_CFG_KEY_EXP_TARGET_CTR_ACTION][<<"5">>] = <<"9">>

C10_Witness ==
  /\ cmd.name = "ActionValue"
  /\ pc = "exit"
  /\ result = "Ok"
  /\ store0 = PrefilledStore
  /\ Len(values) = 3
  /\ store[REDIS_CFG_KEY_EXP_TARGET_CTR_ACTION][<<"0">>] = <<"0", ".", "1">>
  /\ store[REDIS_CFG_KEY_EXP_TARGET_CTR_ACTION][<<"5">>] = <<"9">>

====
